---- MODULE Spec2Model ----
(***************************************************************************)
(* Model of src/app.py: a Streamlit page that fetches a monument           *)
(* description (by name or by image), translates it and narrates it.       *)
(*                                                                         *)
(* One step of the model is one complete run of the script (lines 166-270) *)
(* for one browser session, triggered by one widget interaction.  The      *)
(* st.cache_data memo tables are process-wide; st.session_state is per     *)
(* session.  A run is atomic: Streamlit runs one script at a time per      *)
(* session, and st.cache_data computes a missing entry under a lock for    *)
(* its key, so two sessions never compute the same entry at once.  A       *)
(* widget that a run does not render loses its value, so the text field    *)
(* and the uploader are empty after the input method is switched.          *)
(* Strings are sequences of tokens, so "" is <<>> and a prefix such as     *)
(* "Error:" is the first token.                                            *)
(***************************************************************************)
EXTENDS Integers, Sequences, FiniteSets, TLC

VARIABLES
    session_state,    \* st.session_state of each session (a function on keys)
    widget_state,     \* values of the radio, the text input and the uploader
    buttons,          \* buttons the last run of each session rendered
    name_cache,       \* memo of process_monument_name, keyed by monument_name
    image_cache,      \* memo of process_image, keyed by image_bytes
    translate_cache,  \* memo of translate_to_kannada, keyed by text
    speech_cache,     \* memo of generate_speech, keyed by <<text, lang>>
    request_count,    \* external requests sent so far, per service and input
    run               \* what the most recent script run did

vars == <<session_state, widget_state, buttons, name_cache, image_cache,
          translate_cache, speech_cache, request_count, run>>

----------------------------------------------------------------------------
(* Bounds of the model *)

\* external requests the whole process may send before the model stops
\* offering actions that would send another one
MaxRequests == 3

\* the same, where two sessions share the process
MaxSharedRequests == 2

\* one browser session
Sessions == {"s1"}

\* two browser sessions served by one process
SharedSessions == {"s1", "s2"}

\* monument names a user may type, besides leaving the field empty
Names == {<<"Taj Mahal">>, <<"Hampi">>}

----------------------------------------------------------------------------
(* Python values.  Every value is a record, tagged with its type.         *)

\* a key st.session_state does not hold
Absent == [type |-> "absent"]

None == [type |-> "NoneType"]

\* a str, as its sequence of tokens
Str(tokens) == [type |-> "str", tokens |-> tokens]

\* the BytesIO gTTS wrote the speech of a text to
Mp3(tokens, lang) == [type |-> "BytesIO", tokens |-> tokens, lang |-> lang]

\* Python truthiness of None, a str or a BytesIO (a BytesIO is always true)
Truthy(x) == x # None /\ x # Absent /\ x # Str(<<>>)

StartsWith(x, prefix) ==
    x.type = "str" /\ Len(x.tokens) > 0 /\ Head(x.tokens) = prefix

----------------------------------------------------------------------------
(* Program constants *)

ALLOWED_EXTENSIONS == {"png", "jpg", "jpeg"}

MAX_FILE_SIZE == 5 * 1024 * 1024

NAME_METHOD == "Enter Monument Name"

IMAGE_METHOD == "Upload Monument Image"

\* the options of the radio, in order; the first is the default
INPUT_METHODS == <<NAME_METHOD, IMAGE_METHOD>>

GET_INFO == "Get Monument Information"

ANALYZE == "Analyze Monument"

NARRATE_EN == "Generate English Narration"

TRANSLATE == "Translate to Kannada"

NARRATE_KN == "Generate Kannada Narration"

NO_BUTTON == "no button"

KANNADA == "kn"

ENGLISH == "en"

----------------------------------------------------------------------------
(* Inputs *)

\* Image byte buffers: what Image.open makes of them, their length, and the
\* length of the re-encoded thumbnail (at most 800x800, so small).
Images ==
    { [id |-> "photo", decodes |-> TRUE, len |-> 6 * 1024 * 1024,
       thumb_len |-> 200 * 1024],
      [id |-> "garbage", decodes |-> FALSE, len |-> MAX_FILE_SIZE + 1,
       thumb_len |-> 0] }

ImageOf(id) == CHOOSE i \in Images : i.id = id

\* Uploaded files: a file name (its dot-separated parts) and its bytes.
Files ==
    { [name |-> <<"photo", "JPG">>, bytes |-> "photo"],
      [name |-> <<"photo", "gif">>, bytes |-> "photo"],
      [name |-> <<"scan", "png">>, bytes |-> "garbage"] }

\* the uploader holds no file
NoFile == [name |-> <<>>, bytes |-> "no file"]

\* What the language-model service may do with one request.  (A response
\* without a content field gives a fixed non-empty text, like "content".)
LLM_OUTCOMES == {"content", "empty content", "failure"}

\* What the translation backend may do with one request.
TRANSLATOR_OUTCOMES == {"translated", "no output", "failure"}

\* What the speech backend may do with one request.
TTS_OUTCOMES == {"audio", "failure"}

----------------------------------------------------------------------------
(* Pure helpers *)

\* str.lower() on the extensions that occur
Lower(ext) ==
    CASE ext = "JPG" -> "jpg"
      [] ext = "PNG" -> "png"
      [] ext = "JPEG" -> "jpeg"
      [] OTHER -> ext

\* '.' in filename and filename.rsplit('.', 1)[1].lower() in ALLOWED_EXTENSIONS
allowed_file(filename) ==
    /\ Len(filename) > 1
    /\ Lower(filename[Len(filename)]) \in ALLOWED_EXTENSIONS

\* The length of what compress_image returns: the re-encoded thumbnail, or
\* the original bytes when Image.open raises.
compress_image(image_bytes) ==
    IF ImageOf(image_bytes).decodes
    THEN ImageOf(image_bytes).thumb_len
    ELSE ImageOf(image_bytes).len

\* hashlib.sha256(...).hexdigest(): one digest per content
sha256(content) == <<"sha256", content>>

----------------------------------------------------------------------------
(* The process: the four memo tables and the count of requests sent *)

\* An external request: what is asked of which service (`to`, a token
\* sequence that starts with the operation) and what the service does with it.
Request(to, reply) == [to |-> to, reply |-> reply]

\* one more request counted
Sent(counts, to) ==
    IF \E c \in counts : c.key = to
    THEN {IF c.key = to THEN [c EXCEPT !.n = @ + 1] ELSE c : c \in counts}
    ELSE counts \cup {[key |-> to, n |-> 1]}

RECURSIVE SentAll(_, _)
SentAll(counts, requests) ==
    IF requests = <<>> THEN counts
    ELSE SentAll(Sent(counts, Head(requests).to), Tail(requests))

RECURSIVE Total(_)
Total(counts) ==
    IF counts = {} THEN 0
    ELSE LET c == CHOOSE x \in counts : TRUE
         IN c.n + Total(counts \ {c})

\* cache_data gone wrong: nothing is ever stored
cache_data_NeverStores(cache, key, computed) ==
    [value |-> computed, cache |-> cache, hit |-> FALSE]

\* cache_data gone wrong: error strings and None are not stored
cache_data_SuccessesOnly(cache, key, computed) ==
    IF \E e \in cache : e.key = key
    THEN [value |-> (CHOOSE e \in cache : e.key = key).value,
          cache |-> cache, hit |-> TRUE]
    ELSE [value |-> computed,
          cache |-> IF \/ computed = None
                       \/ StartsWith(computed, "Error:")
                       \/ StartsWith(computed, "Translation failed:")
                    THEN cache
                    ELSE cache \cup {[key |-> key, value |-> computed]},
          hit |-> FALSE]

\* st.cache_data: the stored value of key when there is one, else the value
\* the function body computes, which is then stored (whatever it is: an error
\* string and None are stored like any other return value).
cache_data(cache, key, computed) ==
    IF \E e \in cache : e.key = key
    THEN [value |-> (CHOOSE e \in cache : e.key = key).value,
          cache |-> cache, hit |-> TRUE]
    ELSE [value |-> computed,
          cache |-> cache \cup {[key |-> key, value |-> computed]},
          hit |-> FALSE]

\* The result of a memoised call: its value, the process afterwards and the
\* external requests this call sent.
Called(proc, c, body) ==
    [value |-> c.value,
     hit |-> c.hit,
     requests |-> IF c.hit THEN <<>> ELSE body.requests,
     proc |-> IF c.hit THEN proc
              ELSE [proc EXCEPT !.request_count = SentAll(@, body.requests)]]

----------------------------------------------------------------------------
(* The four stages *)

\* body of process_monument_name: one POST; any exception becomes a string
name_body(monument_name, outcome) ==
    [requests |-> << Request(<<"describe name">> \o monument_name, outcome) >>,
     value |->
        CASE outcome = "content" -> Str(<<"History of">> \o monument_name)
          [] outcome = "empty content" -> Str(<<>>)
          [] outcome = "no content field" ->
                Str(<<"Sorry, no details found for this monument.">>)
          [] OTHER -> Str(<<"Error:", "500 Server Error">>)]

process_monument_name(proc, monument_hash, monument_name, outcome) ==
    LET body == name_body(monument_name, outcome)
        c == cache_data(proc.name_cache, monument_name, body.value)
    IN Called([proc EXCEPT !.name_cache = c.cache], c, body)

\* image_body gone wrong: the POST comes before the size check
image_body_PostsBeforeSizeCheck(image_bytes, outcome) ==
    [requests |-> << Request(<<"describe image", image_bytes>>, outcome) >>,
     value |->
        IF compress_image(image_bytes) > MAX_FILE_SIZE
        THEN Str(<<"Error:", "Compressed file too large. Max size is 5MB">>)
        ELSE CASE outcome = "content" -> Str(<<"This is", image_bytes>>)
               [] outcome = "empty content" -> Str(<<>>)
               [] outcome = "no content field" ->
                     Str(<<"Sorry, no details found in the response.">>)
               [] OTHER -> Str(<<"Error:", "500 Server Error">>)]

\* body of process_image: the size check comes before the POST
image_body(image_bytes, outcome) ==
    IF compress_image(image_bytes) > MAX_FILE_SIZE
    THEN [requests |-> <<>>,
          value |-> Str(<<"Error:", "Compressed file too large. Max size is 5MB">>)]
    ELSE [requests |-> << Request(<<"describe image", image_bytes>>, outcome) >>,
          value |->
            CASE outcome = "content" -> Str(<<"This is", image_bytes>>)
              [] outcome = "empty content" -> Str(<<>>)
              [] outcome = "no content field" ->
                    Str(<<"Sorry, no details found in the response.">>)
              [] OTHER -> Str(<<"Error:", "500 Server Error">>)]

process_image(proc, image_hash, image_bytes, outcome) ==
    LET body == image_body(image_bytes, outcome)
        c == cache_data(proc.image_cache, image_bytes, body.value)
    IN Called([proc EXCEPT !.image_cache = c.cache], c, body)

\* translate_body gone wrong: a failed request is sent a second time
translate_body_RetriesOnce(text, outcome) ==
    [requests |->
        IF outcome = "failure"
        THEN << Request(<<"translate">> \o text.tokens, outcome),
                Request(<<"translate">> \o text.tokens, outcome) >>
        ELSE << Request(<<"translate">> \o text.tokens, outcome) >>,
     value |->
        CASE outcome = "translated" -> Str(<<"kn:">> \o text.tokens)
          [] outcome = "no output" ->
                Str(<<"Translation failed:", "No output from translator.">>)
          [] OTHER -> Str(<<"Translation failed:", "Request exception">>)]

\* body of translate_to_kannada
translate_body(text, outcome) ==
    [requests |-> << Request(<<"translate">> \o text.tokens, outcome) >>,
     value |->
        CASE outcome = "translated" -> Str(<<"kn:">> \o text.tokens)
          [] outcome = "no output" ->
                Str(<<"Translation failed:", "No output from translator.">>)
          [] OTHER -> Str(<<"Translation failed:", "Request exception">>)]

\* translate_to_kannada gone wrong: every call translates anew and
\* overwrites what was stored for the text
translate_to_kannada_Unmemoised(proc, text, outcome) ==
    LET body == translate_body(text, outcome)
        kept == {e \in proc.translate_cache : e.key # text}
    IN Called([proc EXCEPT !.translate_cache =
                   kept \cup {[key |-> text, value |-> body.value]}],
              [value |-> body.value, hit |-> FALSE], body)

translate_to_kannada(proc, text, outcome) ==
    LET body == translate_body(text, outcome)
        c == cache_data(proc.translate_cache, text, body.value)
    IN Called([proc EXCEPT !.translate_cache = c.cache], c, body)

\* speech_body gone wrong: a failure is reported as a string, as the other
\* stages do
speech_body_ErrorString(text, lang, outcome) ==
    [requests |-> << Request(<<"speech", lang>> \o text.tokens, outcome) >>,
     value |-> IF outcome = "audio" THEN Mp3(text.tokens, lang)
               ELSE Str(<<"Error:", "gTTS error">>)]

\* body of generate_speech: None when gTTS raises
speech_body(text, lang, outcome) ==
    [requests |-> << Request(<<"speech", lang>> \o text.tokens, outcome) >>,
     value |-> IF outcome = "audio" THEN Mp3(text.tokens, lang) ELSE None]

generate_speech(proc, text_hash, text, lang, outcome) ==
    LET body == speech_body(text, lang, outcome)
        c == cache_data(proc.speech_cache, <<text, lang>>, body.value)
    IN Called([proc EXCEPT !.speech_cache = c.cache], c, body)

----------------------------------------------------------------------------
(* The script, lines 166-270.  A run threads a record m through the page:  *)
(* m.st is st.session_state, m.proc the process state, m.requests the      *)
(* external requests this run sent, m.cache whether a memoised function    *)
(* was called and answered from its table, m.errors the st.error messages, *)
(* m.buttons the buttons rendered and m.cleared the keys whose value lines  *)
(* 183-186 replaced by None.                                               *)

DERIVED_KEYS ==
    {"monument_info", "translated_text", "audio_kannada", "audio_english"}

Cleared(last) ==
    [monument_info |-> None, translated_text |-> None, audio_kannada |-> None,
     audio_english |-> None, last_input_method |-> last]

\* lines 174-179
init_session_state(st) ==
    IF st.monument_info = Absent THEN Cleared(None) ELSE st

\* clear_on_method_change gone wrong: line 187 is missing
clear_on_method_change_ForgetsMethod(st, input_method) ==
    IF st.last_input_method # Str(<<input_method>>)
    THEN Cleared(st.last_input_method)
    ELSE st

\* clear_on_method_change gone wrong: line 185 is missing
clear_on_method_change_KeepsKannadaClip(st, input_method) ==
    IF st.last_input_method # Str(<<input_method>>)
    THEN [Cleared(Str(<<input_method>>)) EXCEPT
             !.audio_kannada = st.audio_kannada]
    ELSE st

\* lines 182-187
clear_on_method_change(st, input_method) ==
    IF st.last_input_method # Str(<<input_method>>)
    THEN Cleared(Str(<<input_method>>))
    ELSE st

\* store_description gone wrong: the English clip is not cleared
store_description_KeepsEnglishClip(st, result, input_method) ==
    [monument_info |-> result, translated_text |-> None,
     audio_kannada |-> None, audio_english |-> st.audio_english,
     last_input_method |-> Str(<<input_method>>)]

\* lines 199-203 and 220-224
store_description(st, result, input_method) ==
    [monument_info |-> result, translated_text |-> None,
     audio_kannada |-> None, audio_english |-> None,
     last_input_method |-> Str(<<input_method>>)]

\* a memoised call made by a handler, recorded in the run
AfterCall(m, r) ==
    [m EXCEPT !.proc = r.proc,
              !.requests = @ \o r.requests,
              !.cache = IF r.hit THEN "hit" ELSE "miss"]

\* lines 189-203
name_section(m, w, button, outcome) ==
    IF w.monument_name # <<>>
    THEN LET m1 == [m EXCEPT !.buttons = @ \cup {GET_INFO}]
         IN IF button = GET_INFO
            THEN LET r == process_monument_name(m1.proc,
                              sha256(w.monument_name), w.monument_name,
                              outcome)
                 IN [AfterCall(m1, r) EXCEPT
                        !.st = store_description(@, r.value, w.input_method)]
            ELSE m1
    ELSE m

\* lines 205-224
image_section(m, w, button, outcome) ==
    IF w.uploaded_image # NoFile
    THEN IF ~allowed_file(w.uploaded_image.name)
         THEN [m EXCEPT !.errors = @ \cup
                  {"Invalid file type. Only PNG, JPG, JPEG allowed."}]
         ELSE LET m1 == [m EXCEPT !.buttons = @ \cup {ANALYZE}]
              IN IF button = ANALYZE
                 THEN LET image_bytes == w.uploaded_image.bytes
                          r == process_image(m1.proc, sha256(image_bytes),
                                             image_bytes, outcome)
                      IN [AfterCall(m1, r) EXCEPT
                             !.st = store_description(@, r.value,
                                                      w.input_method)]
                 ELSE m1
    ELSE m

\* lines 232-239
english_narration(m, button, outcome) ==
    LET m1 == [m EXCEPT !.buttons = @ \cup {NARRATE_EN}]
    IN IF button = NARRATE_EN
       THEN LET text == m1.st.monument_info
                r == generate_speech(m1.proc, sha256(text), text, ENGLISH,
                                     outcome)
                m2 == AfterCall(m1, r)
            IN IF Truthy(r.value)
               THEN [m2 EXCEPT !.st.audio_english = r.value]
               ELSE [m2 EXCEPT !.errors = @ \cup
                        {"English narration generation failed."}]
       ELSE m1

\* lines 246-249
translation(m, button, outcome) ==
    LET m1 == [m EXCEPT !.buttons = @ \cup {TRANSLATE}]
    IN IF button = TRANSLATE
       THEN LET r == translate_to_kannada(m1.proc, m1.st.monument_info,
                                          outcome)
            IN [AfterCall(m1, r) EXCEPT !.st.translated_text = r.value]
       ELSE m1

\* lines 256-263
kannada_narration(m, button, outcome) ==
    LET m1 == [m EXCEPT !.buttons = @ \cup {NARRATE_KN}]
    IN IF button = NARRATE_KN
       THEN LET text == m1.st.translated_text
                r == generate_speech(m1.proc, sha256(text), text, KANNADA,
                                     outcome)
                m2 == AfterCall(m1, r)
            IN IF Truthy(r.value)
               THEN [m2 EXCEPT !.st.audio_kannada = r.value]
               ELSE [m2 EXCEPT !.errors = @ \cup
                        {"Kannada narration generation failed."}]
       ELSE m1

\* results_section gone wrong: an error description gets no further stages
results_section_SkipsErrors(m, button, outcome) ==
    IF Truthy(m.st.monument_info) /\ ~StartsWith(m.st.monument_info, "Error:")
    THEN LET m1 == english_narration(m, button, outcome.tts)
             m2 == translation(m1, button, outcome.translator)
         IN IF Truthy(m2.st.translated_text)
            THEN kannada_narration(m2, button, outcome.tts)
            ELSE m2
    ELSE m

\* lines 227-267
results_section(m, button, outcome) ==
    IF Truthy(m.st.monument_info)
    THEN LET m1 == english_narration(m, button, outcome.tts)
             m2 == translation(m1, button, outcome.translator)
         IN IF Truthy(m2.st.translated_text)
            THEN kannada_narration(m2, button, outcome.tts)
            ELSE m2
    ELSE m

\* lines 171-267: one run, for the widget values w, with `button` the button
\* whose click caused it (NO_BUTTON when another widget did)
script(st, proc, w, button, outcome) ==
    LET st1 == init_session_state(st)
        st2 == clear_on_method_change(st1, w.input_method)
        m0 == [st |-> st2, proc |-> proc, requests |-> <<>>,
               cache |-> "none", errors |-> {}, buttons |-> {},
               cleared |-> {k \in DERIVED_KEYS :
                               st1[k] # None /\ st2[k] = None}]
        m1 == IF w.input_method = NAME_METHOD
              THEN name_section(m0, w, button, outcome.llm)
              ELSE image_section(m0, w, button, outcome.llm)
    IN results_section(m1, button, outcome)

----------------------------------------------------------------------------
(* State machine *)

Proc ==
    [name_cache |-> name_cache, image_cache |-> image_cache,
     translate_cache |-> translate_cache, speech_cache |-> speech_cache,
     request_count |-> request_count]

\* the widgets of a page that has just been opened, or whose input method
\* has just been switched: the first radio option, an empty text field, an
\* empty uploader
FreshWidgets(input_method) ==
    [input_method |-> input_method, monument_name |-> <<>>,
     uploaded_image |-> NoFile]

\* outcomes of a run that calls no service
Unused == [llm |-> "content", translator |-> "translated", tts |-> "audio"]

Started(s) == session_state[s].monument_info # Absent

InitOn(S) ==
    /\ session_state =
          [s \in S |->
              [monument_info |-> Absent, translated_text |-> Absent,
               audio_kannada |-> Absent, audio_english |-> Absent,
               last_input_method |-> Absent]]
    /\ widget_state = [s \in S |-> FreshWidgets(INPUT_METHODS[1])]
    /\ buttons = [s \in S |-> {}]
    /\ name_cache = {}
    /\ image_cache = {}
    /\ translate_cache = {}
    /\ speech_cache = {}
    /\ request_count = {}
    /\ run = [session |-> "none", button |-> NO_BUTTON, requests |-> <<>>,
              cache |-> "none", errors |-> {}, cleared |-> {}]

\* the bound on external requests that applies to the sessions modelled
RequestCap ==
    IF Cardinality(DOMAIN session_state) > 1
    THEN MaxSharedRequests ELSE MaxRequests

\* One run of the script for session s.
Rerun(s, w, button, outcome) ==
    \E m \in {script(session_state[s], Proc, w, button, outcome)} :
       /\ Total(m.proc.request_count) <= RequestCap
       /\ session_state' = [session_state EXCEPT ![s] = m.st]
       /\ widget_state' = [widget_state EXCEPT ![s] = w]
       /\ buttons' = [buttons EXCEPT ![s] = m.buttons]
       /\ name_cache' = m.proc.name_cache
       /\ image_cache' = m.proc.image_cache
       /\ translate_cache' = m.proc.translate_cache
       /\ speech_cache' = m.proc.speech_cache
       /\ request_count' = m.proc.request_count
       /\ run' = [session |-> s, button |-> button, requests |-> m.requests,
                  cache |-> m.cache, errors |-> m.errors,
                  cleared |-> m.cleared]

\* the browser opens the page: the first run of a session
Connect(s) ==
    /\ ~Started(s)
    /\ Rerun(s, widget_state[s], NO_BUTTON, Unused)

\* the user picks the other radio option
SelectMethod(s, input_method) ==
    /\ Started(s)
    /\ input_method # widget_state[s].input_method
    /\ Rerun(s, FreshWidgets(input_method), NO_BUTTON, Unused)

\* the user edits the text field
EnterName(s, monument_name) ==
    /\ Started(s)
    /\ widget_state[s].input_method = NAME_METHOD
    /\ monument_name # widget_state[s].monument_name
    /\ Rerun(s, [widget_state[s] EXCEPT !.monument_name = monument_name],
             NO_BUTTON, Unused)

\* the user picks or removes a file
UploadImage(s, file) ==
    /\ Started(s)
    /\ widget_state[s].input_method = IMAGE_METHOD
    /\ file # widget_state[s].uploaded_image
    /\ Rerun(s, [widget_state[s] EXCEPT !.uploaded_image = file],
             NO_BUTTON, Unused)

\* The user presses a button the page shows; the service the run contacts,
\* if it contacts one, answers in one of the ways it can.
ClickGetInfo(s) ==
    \E o \in LLM_OUTCOMES :
        /\ GET_INFO \in buttons[s]
        /\ Rerun(s, widget_state[s], GET_INFO, [Unused EXCEPT !.llm = o])

ClickAnalyze(s) ==
    \E o \in LLM_OUTCOMES :
        /\ ANALYZE \in buttons[s]
        /\ Rerun(s, widget_state[s], ANALYZE, [Unused EXCEPT !.llm = o])

ClickEnglishNarration(s) ==
    \E o \in TTS_OUTCOMES :
        /\ NARRATE_EN \in buttons[s]
        /\ Rerun(s, widget_state[s], NARRATE_EN, [Unused EXCEPT !.tts = o])

ClickTranslate(s) ==
    \E o \in TRANSLATOR_OUTCOMES :
        /\ TRANSLATE \in buttons[s]
        /\ Rerun(s, widget_state[s], TRANSLATE,
                 [Unused EXCEPT !.translator = o])

ClickKannadaNarration(s) ==
    \E o \in TTS_OUTCOMES :
        /\ NARRATE_KN \in buttons[s]
        /\ Rerun(s, widget_state[s], NARRATE_KN, [Unused EXCEPT !.tts = o])

Init == InitOn(Sessions)

Next ==
    \E s \in Sessions :
        \/ Connect(s)
        \/ \E i \in DOMAIN INPUT_METHODS : SelectMethod(s, INPUT_METHODS[i])
        \/ \E n \in Names \cup {<<>>} : EnterName(s, n)
        \/ \E f \in Files \cup {NoFile} : UploadImage(s, f)
        \/ ClickGetInfo(s)
        \/ ClickAnalyze(s)
        \/ ClickEnglishNarration(s)
        \/ ClickTranslate(s)
        \/ ClickKannadaNarration(s)

\* One session using every stage.
Spec == Init /\ [][Next]_vars

InitShared == InitOn(SharedSessions)

NextShared ==
    \E s \in SharedSessions :
        \/ Connect(s)
        \/ \E i \in DOMAIN INPUT_METHODS : SelectMethod(s, INPUT_METHODS[i])
        \/ \E n \in Names \cup {<<>>} : EnterName(s, n)
        \/ \E f \in Files \cup {NoFile} : UploadImage(s, f)
        \/ ClickGetInfo(s)
        \/ ClickAnalyze(s)

\* Two sessions of one process using the description stage.
SpecShared == InitShared /\ [][NextShared]_vars

----------------------------------------------------------------------------
(* Vocabulary of the properties *)

Running == DOMAIN session_state

Cached(cache, key) == \E e \in cache : e.key = key

Lookup(cache, key) == (CHOOSE e \in cache : e.key = key).value

AllCleared(st) == \A k \in DERIVED_KEYS : st[k] = None

MethodOf(s) == Str(<<widget_state[s].input_method>>)

TooLargeError == Str(<<"Error:", "Compressed file too large. Max size is 5MB">>)

IsDescribe(to) == Head(to) \in {"describe name", "describe image"}

\* the extension is none of png, jpg, jpeg (in any letter case)
DisallowedExtension(filename) ==
    \/ Len(filename) < 2
    \/ filename[Len(filename)] \notin
          {"png", "jpg", "jpeg", "PNG", "JPG", "JPEG"}

\* a failed stage result: an error string or an absent clip
IsFailure(value) ==
    \/ value = None
    \/ StartsWith(value, "Error:")
    \/ StartsWith(value, "Translation failed:")

----------------------------------------------------------------------------
(* C1 *)

\* C1: a run in which the selected input method differs from the stored
\* last_input_method ends with description, translation and both clips None
\* and with last_input_method the selected method (no input handler runs in
\* it: the run was caused by the radio, or is the first run of the session).
C1_MethodChangeClears ==
    [][\A s \in Running :
          (/\ run'.session = s
           /\ session_state[s].last_input_method # MethodOf(s)')
          => (/\ AllCleared(session_state'[s])
              /\ session_state'[s].last_input_method = MethodOf(s)'
              /\ run'.button = NO_BUTTON
              /\ run'.requests = <<>>)]_vars

\* a method switch that cleared a description, a translation and both clips
C1_Witness ==
    /\ run.session = "s1"
    /\ run.cleared = DERIVED_KEYS
    /\ AllCleared(session_state["s1"])
    /\ session_state["s1"].last_input_method = Str(<<NAME_METHOD>>)

----------------------------------------------------------------------------
(* C2 *)

\* C2: no description input (name or image bytes) is ever requested from
\* the language-model service more than once, and a fetch whose input
\* already has a stored result stores exactly that result as the description
\* and sends nothing, whichever session made the first call.
C2_DescriptionRequestedOnce ==
    [][/\ \A c \in request_count' : IsDescribe(c.key) => c.n <= 1
       /\ \A s \in Running :
             /\ (/\ run'.session = s
                 /\ run'.button = GET_INFO
                 /\ Cached(name_cache, widget_state[s].monument_name))
                => (/\ session_state'[s].monument_info =
                          Lookup(name_cache, widget_state[s].monument_name)
                    /\ run'.requests = <<>>
                    /\ request_count' = request_count
                    /\ name_cache' = name_cache)
             /\ (/\ run'.session = s
                 /\ run'.button = ANALYZE
                 /\ Cached(image_cache, widget_state[s].uploaded_image.bytes))
                => (/\ session_state'[s].monument_info =
                          Lookup(image_cache,
                                 widget_state[s].uploaded_image.bytes)
                    /\ run'.requests = <<>>
                    /\ request_count' = request_count
                    /\ image_cache' = image_cache)]_vars

\* session s2 is served the description that one request, the only one the
\* process has sent, produced; s1 shows the same description
C2_Witness ==
    /\ run.session = "s2"
    /\ run.button = GET_INFO
    /\ run.cache = "hit"
    /\ request_count = {[key |-> <<"describe name", "Taj Mahal">>, n |-> 1]}
    /\ session_state["s2"].monument_info = Str(<<"History of", "Taj Mahal">>)
    /\ session_state["s1"].monument_info = Str(<<"History of", "Taj Mahal">>)

----------------------------------------------------------------------------
(* C3 *)

\* C3: (a) in a run whose uploader holds a file with a disallowed extension
\* the analyze button is not rendered, the invalid-file-type error is shown,
\* no description request is sent, the description and the description memos
\* stay as they were, and the run the upload itself causes leaves the whole
\* session record unchanged; (b) an analyze run on bytes whose normalized
\* length exceeds 5 MiB sends no request and stores the rejection.
C3_ValidationErrorSendsNothing ==
    [][\A s \in Running :
          run'.session = s =>
             LET file == widget_state'[s].uploaded_image
             IN /\ (/\ widget_state'[s].input_method = IMAGE_METHOD
                    /\ file # NoFile
                    /\ DisallowedExtension(file.name))
                   => (/\ ANALYZE \notin buttons'[s]
                       /\ "Invalid file type. Only PNG, JPG, JPEG allowed."
                             \in run'.errors
                       /\ \A i \in DOMAIN run'.requests :
                             ~IsDescribe(run'.requests[i].to)
                       /\ image_cache' = image_cache
                       /\ name_cache' = name_cache
                       /\ session_state'[s].monument_info =
                             session_state[s].monument_info
                       /\ (run'.button = NO_BUTTON
                              => session_state'[s] = session_state[s]))
                /\ (/\ run'.button = ANALYZE
                    /\ compress_image(file.bytes) > 5 * 1024 * 1024)
                   => (/\ run'.requests = <<>>
                       /\ request_count' = request_count
                       /\ session_state'[s].monument_info = TooLargeError)]_vars

\* an oversized image was rejected without a request, and a .gif then
\* uploaded is refused while the rejection is still displayed
C3_Witness ==
    /\ run.session = "s1"
    /\ run.button = NO_BUTTON
    /\ "Invalid file type. Only PNG, JPG, JPEG allowed." \in run.errors
    /\ widget_state["s1"].uploaded_image.name = <<"photo", "gif">>
    /\ session_state["s1"].monument_info = TooLargeError
    /\ request_count = {}

----------------------------------------------------------------------------
(* C4 *)

HasReply(requests, replies) ==
    \E i \in DOMAIN requests : requests[i].reply \in replies

\* C4: a fetch whose request fails stores a string beginning "Error:" as
\* the description; while such a description is stored the English-narration
\* and translate buttons are rendered, and the Kannada-narration button too
\* once a translation is stored; and a translate or narrate run takes the
\* stored text, error string or not, as its input: what it stores is the
\* memoised result for that text, and a request it sends carries that text.
C4_ErrorDescriptionFlowsDownstream ==
    \A s \in Running :
        LET st == session_state[s]
            mine == run.session = s
        IN /\ (/\ mine
               /\ run.button \in {GET_INFO, ANALYZE}
               /\ HasReply(run.requests, {"failure"}))
              => StartsWith(st.monument_info, "Error:")
           /\ StartsWith(st.monument_info, "Error:")
              => (/\ {NARRATE_EN, TRANSLATE} \subseteq buttons[s]
                  /\ Truthy(st.translated_text) => NARRATE_KN \in buttons[s])
           /\ (mine /\ run.button = TRANSLATE)
              => (/\ Cached(translate_cache, st.monument_info)
                  /\ st.translated_text =
                        Lookup(translate_cache, st.monument_info)
                  /\ \A i \in DOMAIN run.requests :
                        run.requests[i].to =
                           <<"translate">> \o st.monument_info.tokens)
           /\ (mine /\ run.button = NARRATE_EN)
              => (/\ Cached(speech_cache, <<st.monument_info, ENGLISH>>)
                  /\ st.audio_english \in
                        {None, Lookup(speech_cache,
                                      <<st.monument_info, ENGLISH>>)}
                  /\ \A i \in DOMAIN run.requests :
                        run.requests[i].to =
                           <<"speech", ENGLISH>> \o st.monument_info.tokens)
           /\ (mine /\ run.button = NARRATE_KN)
              => (/\ Cached(speech_cache, <<st.translated_text, KANNADA>>)
                  /\ st.audio_kannada \in
                        {None, Lookup(speech_cache,
                                      <<st.translated_text, KANNADA>>)}
                  /\ \A i \in DOMAIN run.requests :
                        run.requests[i].to =
                           <<"speech", KANNADA>> \o st.translated_text.tokens)

\* the error string of a failed request has been translated and the
\* translation narrated
C4_Witness ==
    LET st == session_state["s1"]
    IN /\ st.monument_info = Str(<<"Error:", "500 Server Error">>)
       /\ st.translated_text = Str(<<"kn:", "Error:", "500 Server Error">>)
       /\ st.audio_kannada =
             Mp3(<<"kn:", "Error:", "500 Server Error">>, KANNADA)
       /\ run.button = NARRATE_KN

----------------------------------------------------------------------------
(* C5 *)

\* C5 as claimed: a run in which the content of the input widget differs
\* from the previous run's leaves description, translation and clips None.
C5_ContentChangeClears ==
    [][\A s \in Running :
          (/\ run'.session = s
           /\ \/ widget_state'[s].monument_name # widget_state[s].monument_name
              \/ widget_state'[s].uploaded_image #
                    widget_state[s].uploaded_image)
          => AllCleared(session_state'[s])]_vars

\* the result the description stage has memoised for the widgets' content
DescriptionOf(s) ==
    IF widget_state[s].input_method = NAME_METHOD
    THEN Lookup(name_cache, widget_state[s].monument_name)
    ELSE Lookup(image_cache, widget_state[s].uploaded_image.bytes)

\* C5 amended: the record is cleared by a run in which the input method
\* changed; a fetch or analyze run replaces the description by the result
\* for the submitted content and clears translation and clips; a run caused
\* by editing the name or changing the file, without a button and under the
\* same method, leaves the whole session record as it was.
C5_ClearedOnMethodChangeOrSubmit ==
    [][\A s \in Running :
          (run'.session = s /\ Started(s)) =>
             LET old == session_state[s]
                 new == session_state'[s]
                 switched == widget_state'[s].input_method #
                                widget_state[s].input_method
             IN /\ switched => AllCleared(new)
                /\ run'.button \in {GET_INFO, ANALYZE}
                   => (/\ new.monument_info = DescriptionOf(s)'
                       /\ new.translated_text = None
                       /\ new.audio_kannada = None
                       /\ new.audio_english = None)
                /\ (run'.button = NO_BUTTON /\ ~switched) => new = old]_vars

\* the text field has been edited to another name, and the description and
\* translation of the previous name are still stored, with the narration of
\* that translation on offer
C5_Witness ==
    /\ run.button = NO_BUTTON
    /\ widget_state["s1"].monument_name = <<"Hampi">>
    /\ ~Cached(name_cache, <<"Hampi">>)
    /\ session_state["s1"].monument_info = Str(<<"History of", "Taj Mahal">>)
    /\ Truthy(session_state["s1"].translated_text)
    /\ NARRATE_KN \in buttons["s1"]

----------------------------------------------------------------------------
(* C6 *)

\* C6: what generate_speech returns is a clip or None, never a string, and
\* None when the synthesis request fails; a narration run whose synthesis
\* result is None leaves all five session fields as they were and shows the
\* narration's own error; so a clip field never holds anything but None or a
\* clip.
C6_FailedSpeechStoresNothing ==
    [][\A s \in Running :
          /\ session_state'[s].audio_english.type \in
                {"absent", "NoneType", "BytesIO"}
          /\ session_state'[s].audio_kannada.type \in
                {"absent", "NoneType", "BytesIO"}
          /\ (run'.session = s /\ run'.button \in {NARRATE_EN, NARRATE_KN}) =>
                LET english == run'.button = NARRATE_EN
                    key == IF english
                           THEN <<session_state[s].monument_info, ENGLISH>>
                           ELSE <<session_state[s].translated_text, KANNADA>>
                    result == Lookup(speech_cache', key)
                IN /\ Cached(speech_cache', key)
                   /\ result.type \in {"NoneType", "BytesIO"}
                   /\ HasReply(run'.requests, {"failure"}) => result = None
                   /\ result = None
                      => (/\ session_state'[s] = session_state[s]
                          /\ (IF english
                              THEN "English narration generation failed."
                              ELSE "Kannada narration generation failed.")
                                \in run'.errors)
          ]_vars

\* the English synthesis has just failed: the error is shown, no English
\* clip is stored, and the translation and Kannada clip stored before are
\* still there
C6_Witness ==
    LET st == session_state["s1"]
    IN /\ run.button = NARRATE_EN
       /\ HasReply(run.requests, {"failure"})
       /\ "English narration generation failed." \in run.errors
       /\ st.audio_english = None
       /\ Truthy(st.translated_text)
       /\ Truthy(st.audio_kannada)

----------------------------------------------------------------------------
(* C7 *)

\* C7 as claimed: every run caused by a button sends exactly one request.
C7_ExactlyOneRequestPerAction ==
    run.button # NO_BUTTON => Len(run.requests) = 1

\* the service a button's stage asks
ServiceOf(button) ==
    CASE button = GET_INFO -> {"describe name"}
      [] button = ANALYZE -> {"describe image"}
      [] button = TRANSLATE -> {"translate"}
      [] OTHER -> {"speech"}

\* C7 amended: a run caused by a button calls its stage's memoised function
\* once and sends at most one request, to that stage's service: none when
\* the result comes from the memo or when the image is rejected for its
\* size, and exactly one otherwise, also when that request fails.
C7_AtMostOneRequestPerAction ==
    run.button # NO_BUTTON =>
        LET w == widget_state[run.session]
            rejected == /\ run.button = ANALYZE
                        /\ compress_image(w.uploaded_image.bytes) >
                              5 * 1024 * 1024
        IN /\ run.cache \in {"hit", "miss"}
           /\ Len(run.requests) <= 1
           /\ Len(run.requests) = 1 <=> (run.cache = "miss" /\ ~rejected)
           /\ \A i \in DOMAIN run.requests :
                 Head(run.requests[i].to) \in ServiceOf(run.button)

\* a translate button pressed again: answered from the memo, nothing sent
C7_Witness ==
    /\ run.button = TRANSLATE
    /\ run.cache = "hit"
    /\ run.requests = <<>>
    /\ Truthy(session_state["s1"].translated_text)

----------------------------------------------------------------------------
(* C8 *)

Stored(x) == x # None /\ x # Absent

\* C8: in every state a stored translation is the memoised translation of
\* the stored description (its Kannada rendering, or the failure message), a
\* stored English clip is the speech of the stored description in English,
\* and a stored Kannada clip is the speech of the stored translation in
\* Kannada.
C8_ArtifactsDeriveFromStoredSource ==
    \A s \in Running :
        LET st == session_state[s]
        IN /\ Stored(st.translated_text)
              => (/\ Stored(st.monument_info)
                  /\ Cached(translate_cache, st.monument_info)
                  /\ st.translated_text =
                        Lookup(translate_cache, st.monument_info)
                  /\ \/ st.translated_text =
                           Str(<<"kn:">> \o st.monument_info.tokens)
                     \/ StartsWith(st.translated_text, "Translation failed:"))
           /\ Stored(st.audio_english)
              => (/\ Stored(st.monument_info)
                  /\ st.audio_english = Mp3(st.monument_info.tokens, ENGLISH))
           /\ Stored(st.audio_kannada)
              => (/\ Stored(st.translated_text)
                  /\ st.audio_kannada =
                        Mp3(st.translated_text.tokens, KANNADA))

\* translate pressed again while the Kannada clip of the translation is
\* stored, next to the English clip of the description
C8_Witness ==
    LET st == session_state["s1"]
    IN /\ run.button = TRANSLATE
       /\ run.cache = "hit"
       /\ Stored(st.audio_kannada)
       /\ Stored(st.audio_english)

----------------------------------------------------------------------------
(* C9 *)

\* C9: the session record changes only in a run of its own session caused
\* by a button or by the radio (or in the session's first run, which creates
\* it); the translate and English-narration buttons are rendered only with a
\* non-empty description stored and the Kannada-narration button only with a
\* non-empty translation stored; so a stored Kannada clip comes with a
\* non-empty translation, and a stored translation or English clip with a
\* non-empty description.
C9_StageOrdering ==
    [][\A s \in Running :
          LET st == session_state'[s]
          IN /\ session_state'[s] # session_state[s]
                => (/\ run'.session = s
                    /\ \/ run'.button # NO_BUTTON
                       \/ widget_state'[s].input_method #
                             widget_state[s].input_method
                       \/ ~Started(s))
             /\ TRANSLATE \in buttons'[s] => Truthy(st.monument_info)
             /\ NARRATE_EN \in buttons'[s] => Truthy(st.monument_info)
             /\ NARRATE_KN \in buttons'[s]
                => (Truthy(st.monument_info) /\ Truthy(st.translated_text))
             /\ Stored(st.audio_kannada) => Truthy(st.translated_text)
             /\ Stored(st.translated_text) => Truthy(st.monument_info)
             /\ Stored(st.audio_english) => Truthy(st.monument_info)]_vars

\* the last stage has run: description, translation and Kannada clip are
\* stored and all three result buttons are on the page
C9_Witness ==
    LET st == session_state["s1"]
    IN /\ run.button = NARRATE_KN
       /\ Stored(st.audio_kannada)
       /\ Truthy(st.translated_text)
       /\ Truthy(st.monument_info)
       /\ buttons["s1"] = {GET_INFO, NARRATE_EN, TRANSLATE, NARRATE_KN}

----------------------------------------------------------------------------
(* C10 *)

\* what the memos hold for the input the button's stage takes, given the
\* session record st and the widget values w
StageMemo(st, w, names, images, translations, speeches, button) ==
    CASE button = GET_INFO ->
            {e.value : e \in {x \in names : x.key = w.monument_name}}
      [] button = ANALYZE ->
            {e.value : e \in {x \in images : x.key = w.uploaded_image.bytes}}
      [] button = TRANSLATE ->
            {e.value : e \in {x \in translations : x.key = st.monument_info}}
      [] button = NARRATE_EN ->
            {e.value : e \in {x \in speeches :
                                 x.key = <<st.monument_info, ENGLISH>>}}
      [] OTHER ->
            {e.value : e \in {x \in speeches :
                                 x.key = <<st.translated_text, KANNADA>>}}

\* the session field the button's stage writes
StageField(button) ==
    CASE button \in {GET_INFO, ANALYZE} -> "monument_info"
      [] button = TRANSLATE -> "translated_text"
      [] button = NARRATE_EN -> "audio_english"
      [] OTHER -> "audio_kannada"

\* C10: no memo entry is ever dropped or replaced; a stage invocation whose
\* request fails leaves a failure in the memo for its input; and a stage
\* invocation that finds a failure memoised for its input sends no request
\* and yields that failure again: an error string is stored in the stage's
\* field, an absent clip leaves the session record unchanged.
C10_FailuresAreMemoised ==
    [][/\ name_cache \subseteq name_cache'
       /\ image_cache \subseteq image_cache'
       /\ translate_cache \subseteq translate_cache'
       /\ speech_cache \subseteq speech_cache'
       /\ \A s \in Running :
             (run'.session = s /\ run'.button # NO_BUTTON) =>
                LET before == StageMemo(session_state[s], widget_state[s],
                                        name_cache, image_cache,
                                        translate_cache, speech_cache,
                                        run'.button)
                    after == StageMemo(session_state[s], widget_state[s],
                                       name_cache', image_cache',
                                       translate_cache', speech_cache',
                                       run'.button)
                IN /\ HasReply(run'.requests, {"failure", "no output"})
                      => (after # {} /\ \A v \in after : IsFailure(v))
                   /\ \A v \in before :
                         IsFailure(v) =>
                            /\ run'.requests = <<>>
                            /\ request_count' = request_count
                            /\ after = {v}
                            /\ IF v = None
                               THEN session_state'[s] = session_state[s]
                               ELSE session_state'[s][StageField(run'.button)]
                                       = v]_vars

\* the fetch of a name whose request failed before is answered with the
\* memoised error, without a request
C10_Witness ==
    /\ run.button = GET_INFO
    /\ run.cache = "hit"
    /\ run.requests = <<>>
    /\ session_state["s1"].monument_info = Str(<<"Error:", "500 Server Error">>)

====
